---- MODULE Spec2Model ----
(***************************************************************************)
(* TransactionManager::handle_transaction and try_send_transaction of      *)
(* src/src/transaction_manager.rs as a state machine.  Every await of the  *)
(* code (get_transaction_count, estimate_gas, send_transaction,            *)
(* confirmations, sleep) is a suspension point: an action runs the code    *)
(* from the return of one await to the issue of the next one.              *)
(***************************************************************************)
EXTENDS Integers, Sequences, FiniteSets, TLC

\* ---------------------------------------------------------------- constants
MAX_RETRIES == 2
RETRY_DELAY == 5

\* U256 is modelled as an unsigned integer of UBits bits.
UBits == 16
\* The largest transaction count the network reports.
MaxCount == 5

U256Max == 2^UBits - 1

\* The concurrent callers of handle_transaction on one TransactionManager
\* (one wallet, one address).
Calls == {"A", "B"}
Solo == {"A"}

\* ------------------------------------------------------------------ Option
None == <<>>
Some(x) == <<x>>
unwrap_or_default(o) == IF o = None THEN 0 ELSE o[1]

\* U256::checked_mul / checked_div
checked_mul(a, b) == IF a * b > U256Max THEN None ELSE Some(a * b)
checked_div(a, b) == IF b = 0 THEN None ELSE Some(a \div b)

\* try_send_transaction, lines 88-92
IncreasedGas(estimate_gas) ==
    unwrap_or_default(
        checked_div(unwrap_or_default(checked_mul(estimate_gas, 110)), 100))

\* ------------------------------------------------------------------ errors
\* An error text is a sequence of words; e.to_string().contains("already known")
\* is a search for the two adjacent words.
AlreadyKnownPattern == <<"already", "known">>

Contains(text, pat) ==
    \E i \in 1..(Len(text) - Len(pat) + 1) :
        SubSeq(text, i, i + Len(pat) - 1) = pat

IsAlreadyKnown(text) == Contains(text, AlreadyKnownPattern)

\* The texts the collaborators fail with.
SendErrorTexts == { <<"tx", "already", "known">>, <<"nonce", "too", "low">> }
EstimateErrorTexts == { <<"execution", "reverted">>, <<"already", "known">> }
ConfirmErrorTexts == { <<"connection", "reset">> }
QueryErrorTexts == { <<"connection", "reset">> }

Error(src, text) == [src |-> src, text |-> text]

\* Result<(), Report>
NoResult == [tag |-> "none"]
Ok == [tag |-> "Ok"]
Err(e) == [tag |-> "Err", e |-> e]

\* --------------------------------------------------------------- requests
\* TransactionRequest: the fields the manager reads or writes, and the
\* payload standing for the fields it leaves alone.
Request(nonce, gas) == [nonce |-> nonce, gas |-> gas, payload |-> "call"]
NoRequest == [nonce |-> None, gas |-> None, payload |-> "none"]

\* TransactionRequest::nonce(n), TransactionRequest::gas(g)
WithNonce(tx, n) == [tx EXCEPT !.nonce = Some(n)]
WithGas(tx, g) == [tx EXCEPT !.gas = Some(g)]

\* The requests callers submit.
CallerRequests == { Request(None, None), Request(Some(2), None) }

\* The fee estimates the network returns.
Estimates == { 0, 7, 100, U256Max \div 110, (U256Max \div 110) + 1, U256Max }

\* handle_transaction, line 42: U256 + u32 - i32; the U256 operators panic
\* on overflow and on underflow.  None stands for the panic.
NewNonceOffByOne(num_transactions, att) ==
    IF num_transactions + att > U256Max \/ num_transactions + att < 1
    THEN None
    ELSE Some(num_transactions + att - 1)
NewNonce(num_transactions, att) ==
    IF num_transactions + att > U256Max \/ num_transactions + att < 2
    THEN None
    ELSE Some(num_transactions + att - 2)

\* handle_transaction, line 72: RETRY_DELAY * (attempts + 1), in seconds
BackoffDelayFlat(att) == RETRY_DELAY
BackoffDelay(att) == RETRY_DELAY * (att + 1)

\* handle_transaction, line 36: the loop condition
LoopCondInclusive(att) == att <= MAX_RETRIES
LoopCond(att) == att < MAX_RETRIES

\* handle_transaction, line 58: the guard of the retry arm
RetryGuardLast(att) == att + 1 < MAX_RETRIES
RetryGuard(att) == att < MAX_RETRIES

\* handle_transaction, line 34
InitialAdjustNonceSet == TRUE
InitialAdjustNonce == FALSE

\* handle_transaction, line 83: the value returned when the loop ends
AfterLoopResult == Ok

\* ------------------------------------------------------------------- state
VARIABLES
    pc,                \* per call: where the call is suspended
    request,           \* per call: the caller's `transaction` argument
    attempts,          \* per call: `attempts`
    adjust_nonce,      \* per call: `adjust_nonce`
    transaction,       \* per call: the attempt's `transaction` (lines 37-54)
    num_transactions,  \* per call: `num_transactions` of the attempt
    estimate_gas,      \* per call: `estimate_gas` of the attempt
    sent,              \* per call: the request given to send_transaction
    result,            \* per call: the value handle_transaction returned
    issued,            \* per call: collaborator calls issued, by kind
    returned,          \* per call: collaborator calls that returned, by kind
    outcomes,          \* per call: what try_send_transaction returned, per attempt
    delays,            \* per call: the durations given to sleep, in order
    begun,             \* per call: iterations of the loop entered
    events,            \* per call: the awaited calls issued and returned, in order
    txCount            \* the network's transaction count of the wallet address

vars == << pc, request, attempts, adjust_nonce, transaction, num_transactions,
           estimate_gas, sent, result, issued, returned, outcomes, delays,
           begun, events, txCount >>

Kinds == {"query", "estimate", "send", "confirm", "sleep"}
NoCalls == [k \in Kinds |-> 0]
Bump(f, c, k) == [f EXCEPT ![c][k] = @ + 1]

\* An entry of `events`: the awaited call of kind k of the attempt with index
\* att was issued ("issue"), or returned a value ("ok") or an error ("err").
Event(att, k, what) == [att |-> att, kind |-> k, what |-> what]
Log(c, evs) == [events EXCEPT ![c] = @ \o evs]

Init ==
    /\ pc = [c \in Calls |-> "idle"]
    /\ request = [c \in Calls |-> NoRequest]
    /\ attempts = [c \in Calls |-> 0]
    /\ adjust_nonce = [c \in Calls |-> FALSE]
    /\ transaction = [c \in Calls |-> NoRequest]
    /\ num_transactions = [c \in Calls |-> None]
    /\ estimate_gas = [c \in Calls |-> None]
    /\ sent = [c \in Calls |-> NoRequest]
    /\ result = [c \in Calls |-> NoResult]
    /\ issued = [c \in Calls |-> NoCalls]
    /\ returned = [c \in Calls |-> NoCalls]
    /\ outcomes = [c \in Calls |-> << >>]
    /\ delays = [c \in Calls |-> << >>]
    /\ begun = [c \in Calls |-> 0]
    /\ events = [c \in Calls |-> << >>]
    /\ txCount \in 0..MaxCount

\* ----------------------------------------------------------------- actions
\* Lines 36-56 up to the first await of the iteration: the loop test, then
\* either the transaction-count query (adjust_nonce set) or the clone of the
\* caller's request and the gas estimate of try_send_transaction (line 87).
\* When the loop test fails the function returns at line 83.
LoopTop(c, att, adj, req, done) ==
    IF LoopCond(att)
    THEN IF adj
         THEN /\ pc' = [pc EXCEPT ![c] = "query"]
              /\ begun' = [begun EXCEPT ![c] = @ + 1]
              /\ issued' = Bump(issued, c, "query")
              /\ events' = Log(c, done \o << Event(att, "query", "issue") >>)
              /\ transaction' = [transaction EXCEPT ![c] = NoRequest]
              /\ result' = result
         ELSE /\ pc' = [pc EXCEPT ![c] = "estimate"]
              /\ begun' = [begun EXCEPT ![c] = @ + 1]
              /\ issued' = Bump(issued, c, "estimate")
              /\ events' = Log(c, done \o << Event(att, "estimate", "issue") >>)
              /\ transaction' = [transaction EXCEPT ![c] = req]
              /\ result' = result
    ELSE /\ pc' = [pc EXCEPT ![c] = "returned"]
         /\ begun' = begun
         /\ issued' = issued
         /\ events' = Log(c, done)
         /\ transaction' = [transaction EXCEPT ![c] = NoRequest]
         /\ result' = [result EXCEPT ![c] = AfterLoopResult]

\* A caller invokes handle_transaction(req): lines 33-34, then the loop.
Submit(c, req) ==
    /\ pc[c] = "idle"
    /\ request' = [request EXCEPT ![c] = req]
    /\ attempts' = [attempts EXCEPT ![c] = 0]
    /\ adjust_nonce' = [adjust_nonce EXCEPT ![c] = InitialAdjustNonce]
    /\ LoopTop(c, 0, InitialAdjustNonce, req, << >>)
    /\ UNCHANGED << num_transactions, estimate_gas, sent, returned, outcomes,
                    delays, txCount >>

\* Line 64: the flag belongs to the call that saw the error.
SetAdjustNonceShared(c) == [d \in Calls |-> TRUE]
SetAdjustNonce(c) == [adjust_nonce EXCEPT ![c] = TRUE]

\* Lines 56-80, the match on Err(e) returned by try_send_transaction: the
\* retry arm (classify, sleep) or the give-up arm (return Err(e)).  The locals
\* of the attempt go out of scope.
HandleErrorNoAwait(c, e) ==
    /\ outcomes' = [outcomes EXCEPT ![c] = Append(@, Err(e))]
    /\ num_transactions' = [num_transactions EXCEPT ![c] = None]
    /\ estimate_gas' = [estimate_gas EXCEPT ![c] = None]
    /\ sent' = [sent EXCEPT ![c] = NoRequest]
    /\ request' = request
    /\ adjust_nonce' = IF IsAlreadyKnown(e.text)
                       THEN SetAdjustNonce(c) ELSE adjust_nonce
    /\ delays' = [delays EXCEPT ![c] = Append(@, BackoffDelay(attempts[c]))]
    /\ attempts' = [attempts EXCEPT ![c] = @ + 1]
    /\ LET adj == adjust_nonce'[c]
           att == attempts'[c]
           kind == IF ~LoopCond(att) THEN "sleep"
                   ELSE IF adj THEN "query" ELSE "estimate"
       IN /\ pc' = [pc EXCEPT ![c] = IF LoopCond(att) THEN kind ELSE "returned"]
          /\ begun' = IF LoopCond(att) THEN [begun EXCEPT ![c] = @ + 1] ELSE begun
          /\ events' = Log(c, << Event(attempts[c], e.src, "err"),
                                 Event(attempts[c], "sleep", "issue") >>
                               \o IF LoopCond(att)
                                  THEN << Event(att, kind, "issue") >>
                                  ELSE << >>)
          /\ issued' = [issued EXCEPT ![c] =
                          IF LoopCond(att)
                          THEN [@ EXCEPT !["sleep"] = @ + 1, ![kind] = @ + 1]
                          ELSE [@ EXCEPT !["sleep"] = @ + 1]]
          /\ transaction' = [transaction EXCEPT ![c] =
                               IF LoopCond(att) /\ ~adj THEN request[c]
                               ELSE NoRequest]
          /\ result' = IF LoopCond(att) THEN result
                       ELSE [result EXCEPT ![c] = AfterLoopResult]
HandleErrorInPlace(c, e) ==
    /\ outcomes' = [outcomes EXCEPT ![c] = Append(@, Err(e))]
    /\ num_transactions' = [num_transactions EXCEPT ![c] = None]
    /\ estimate_gas' = [estimate_gas EXCEPT ![c] = None]
    /\ sent' = [sent EXCEPT ![c] = NoRequest]
    /\ transaction' = [transaction EXCEPT ![c] = NoRequest]
    /\ request' = [request EXCEPT ![c] =
                      IF sent[c] = NoRequest THEN @ ELSE sent[c]]
    /\ UNCHANGED << attempts, begun >>
    /\ adjust_nonce' = IF IsAlreadyKnown(e.text)
                       THEN SetAdjustNonce(c) ELSE adjust_nonce
    /\ delays' = [delays EXCEPT ![c] = Append(@, BackoffDelay(attempts[c]))]
    /\ issued' = Bump(issued, c, "sleep")
    /\ events' = Log(c, << Event(attempts[c], e.src, "err"),
                           Event(attempts[c], "sleep", "issue") >>)
    /\ pc' = [pc EXCEPT ![c] = "sleep"]
    /\ result' = result
HandleError(c, e) ==
    /\ outcomes' = [outcomes EXCEPT ![c] = Append(@, Err(e))]
    /\ num_transactions' = [num_transactions EXCEPT ![c] = None]
    /\ estimate_gas' = [estimate_gas EXCEPT ![c] = None]
    /\ sent' = [sent EXCEPT ![c] = NoRequest]
    /\ transaction' = [transaction EXCEPT ![c] = NoRequest]
    /\ UNCHANGED << request, attempts, begun >>
    /\ IF RetryGuard(attempts[c])
       THEN /\ adjust_nonce' = IF IsAlreadyKnown(e.text)
                               THEN SetAdjustNonce(c) ELSE adjust_nonce
            /\ delays' = [delays EXCEPT ![c] = Append(@, BackoffDelay(attempts[c]))]
            /\ issued' = Bump(issued, c, "sleep")
            /\ events' = Log(c, << Event(attempts[c], e.src, "err"),
                                   Event(attempts[c], "sleep", "issue") >>)
            /\ pc' = [pc EXCEPT ![c] = "sleep"]
            /\ result' = result
       ELSE /\ pc' = [pc EXCEPT ![c] = "returned"]
            /\ events' = Log(c, << Event(attempts[c], e.src, "err") >>)
            /\ result' = [result EXCEPT ![c] = Err(e)]
            /\ UNCHANGED << adjust_nonce, delays, issued >>

\* sleep(...) returns: line 74, then the loop again.
SleepDone(c) ==
    /\ pc[c] = "sleep"
    /\ returned' = Bump(returned, c, "sleep")
    /\ attempts' = [attempts EXCEPT ![c] = @ + 1]
    /\ LoopTop(c, attempts[c] + 1, adjust_nonce[c], request[c],
               << Event(attempts[c], "sleep", "ok") >>)
    /\ UNCHANGED << request, adjust_nonce, num_transactions, estimate_gas,
                    sent, outcomes, delays, txCount >>

\* get_transaction_count returns the network's count: lines 42-51, then the
\* gas estimate of try_send_transaction (line 87).  A panic of the U256
\* arithmetic ends the call without a result.
QueryOk(c) ==
    /\ pc[c] = "query"
    /\ returned' = Bump(returned, c, "query")
    /\ num_transactions' = [num_transactions EXCEPT ![c] = Some(txCount)]
    /\ LET new_nonce == NewNonce(txCount, attempts[c])
       IN IF new_nonce = None
          THEN /\ pc' = [pc EXCEPT ![c] = "panicked"]
               /\ events' = Log(c, << Event(attempts[c], "query", "ok") >>)
               /\ UNCHANGED << transaction, issued, begun >>
          ELSE /\ transaction' = [transaction EXCEPT ![c] =
                                    WithNonce(request[c], new_nonce[1])]
               /\ pc' = [pc EXCEPT ![c] = "estimate"]
               /\ issued' = Bump(issued, c, "estimate")
               /\ events' = Log(c, << Event(attempts[c], "query", "ok"),
                                      Event(attempts[c], "estimate", "issue") >>)
               /\ begun' = begun
    /\ UNCHANGED << request, attempts, adjust_nonce, estimate_gas, sent,
                    result, outcomes, delays, txCount >>

\* get_transaction_count fails: the `?` of line 41 returns the error.
QueryErrRetried(c, text) ==
    /\ pc[c] = "query"
    /\ returned' = Bump(returned, c, "query")
    /\ HandleError(c, Error("query", text))
    /\ UNCHANGED txCount
QueryErr(c, text) ==
    /\ pc[c] = "query"
    /\ returned' = Bump(returned, c, "query")
    /\ pc' = [pc EXCEPT ![c] = "returned"]
    /\ result' = [result EXCEPT ![c] = Err(Error("query", text))]
    /\ events' = Log(c, << Event(attempts[c], "query", "err") >>)
    /\ UNCHANGED << request, attempts, adjust_nonce, transaction,
                    num_transactions, estimate_gas, sent, issued, outcomes,
                    delays, begun, txCount >>

\* estimate_gas returns g: lines 88-103, up to the await of send_transaction.
EstimateOkFromRequest(c, g) ==
    /\ pc[c] = "estimate"
    /\ returned' = Bump(returned, c, "estimate")
    /\ estimate_gas' = [estimate_gas EXCEPT ![c] = Some(g)]
    /\ sent' = [sent EXCEPT ![c] = WithGas(request[c], IncreasedGas(g))]
    /\ pc' = [pc EXCEPT ![c] = "send"]
    /\ issued' = Bump(issued, c, "send")
    /\ events' = Log(c, << Event(attempts[c], "estimate", "ok"),
                           Event(attempts[c], "send", "issue") >>)
    /\ UNCHANGED << request, attempts, adjust_nonce, transaction,
                    num_transactions, result, outcomes, delays, begun,
                    txCount >>
EstimateOk(c, g) ==
    /\ pc[c] = "estimate"
    /\ returned' = Bump(returned, c, "estimate")
    /\ estimate_gas' = [estimate_gas EXCEPT ![c] = Some(g)]
    /\ sent' = [sent EXCEPT ![c] = WithGas(transaction[c], IncreasedGas(g))]
    /\ pc' = [pc EXCEPT ![c] = "send"]
    /\ issued' = Bump(issued, c, "send")
    /\ events' = Log(c, << Event(attempts[c], "estimate", "ok"),
                           Event(attempts[c], "send", "issue") >>)
    /\ UNCHANGED << request, attempts, adjust_nonce, transaction,
                    num_transactions, result, outcomes, delays, begun,
                    txCount >>

\* estimate_gas fails: the `?` of line 87 makes try_send_transaction return
\* the error to the match of line 56.
EstimateErrDefaulted(c, text) ==
    /\ pc[c] = "estimate"
    /\ returned' = Bump(returned, c, "estimate")
    /\ estimate_gas' = [estimate_gas EXCEPT ![c] = Some(0)]
    /\ sent' = [sent EXCEPT ![c] = WithGas(transaction[c], IncreasedGas(0))]
    /\ pc' = [pc EXCEPT ![c] = "send"]
    /\ issued' = Bump(issued, c, "send")
    /\ events' = Log(c, << Event(attempts[c], "estimate", "err"),
                           Event(attempts[c], "send", "issue") >>)
    /\ UNCHANGED << request, attempts, adjust_nonce, transaction,
                    num_transactions, result, outcomes, delays, begun,
                    txCount >>
EstimateErr(c, text) ==
    /\ pc[c] = "estimate"
    /\ returned' = Bump(returned, c, "estimate")
    /\ HandleError(c, Error("estimate", text))
    /\ UNCHANGED txCount

\* send_transaction is accepted: lines 105-114, up to the await of the
\* confirmations.
SendOk(c) ==
    /\ pc[c] = "send"
    /\ returned' = Bump(returned, c, "send")
    /\ pc' = [pc EXCEPT ![c] = "confirm"]
    /\ issued' = Bump(issued, c, "confirm")
    /\ events' = Log(c, << Event(attempts[c], "send", "ok"),
                           Event(attempts[c], "confirm", "issue") >>)
    /\ UNCHANGED << request, attempts, adjust_nonce, transaction,
                    num_transactions, estimate_gas, sent, result, outcomes,
                    delays, begun, txCount >>

\* send_transaction is rejected: lines 122-125, then the match of line 56.
SendErr(c, text) ==
    /\ pc[c] = "send"
    /\ returned' = Bump(returned, c, "send")
    /\ HandleError(c, Error("send", text))
    /\ UNCHANGED txCount

\* The confirmations are seen: lines 115-128, then line 57.
ConfirmOk(c) ==
    /\ pc[c] = "confirm"
    /\ returned' = Bump(returned, c, "confirm")
    /\ outcomes' = [outcomes EXCEPT ![c] = Append(@, Ok)]
    /\ events' = Log(c, << Event(attempts[c], "confirm", "ok") >>)
    /\ pc' = [pc EXCEPT ![c] = "returned"]
    /\ result' = [result EXCEPT ![c] = Ok]
    /\ num_transactions' = [num_transactions EXCEPT ![c] = None]
    /\ estimate_gas' = [estimate_gas EXCEPT ![c] = None]
    /\ sent' = [sent EXCEPT ![c] = NoRequest]
    /\ transaction' = [transaction EXCEPT ![c] = NoRequest]
    /\ UNCHANGED << request, attempts, adjust_nonce, issued, delays, begun,
                    txCount >>

\* The wait for the confirmations fails: the `?` of line 114, then the match
\* of line 56.
ConfirmErr(c, text) ==
    /\ pc[c] = "confirm"
    /\ returned' = Bump(returned, c, "confirm")
    /\ HandleError(c, Error("confirm", text))
    /\ UNCHANGED txCount

\* The network includes a transaction of the wallet address in a block.
ChainAdvance ==
    /\ txCount < MaxCount
    /\ txCount' = txCount + 1
    /\ UNCHANGED << pc, request, attempts, adjust_nonce, transaction,
                    num_transactions, estimate_gas, sent, result, issued,
                    returned, outcomes, delays, begun, events >>

Step(c, requests, estimates) ==
    \/ \E req \in requests : Submit(c, req)
    \/ SleepDone(c)
    \/ QueryOk(c)
    \/ \E text \in QueryErrorTexts : QueryErr(c, text)
    \/ \E g \in estimates : EstimateOk(c, g)
    \/ \E text \in EstimateErrorTexts : EstimateErr(c, text)
    \/ SendOk(c)
    \/ \E text \in SendErrorTexts : SendErr(c, text)
    \/ ConfirmOk(c)
    \/ \E text \in ConfirmErrorTexts : ConfirmErr(c, text)

\* One call of handle_transaction.
Next == (\E c \in Solo : Step(c, CallerRequests, Estimates)) \/ ChainAdvance

Spec == Init /\ [][Next]_vars

\* Two callers use the same TransactionManager at once, each with a request
\* that carries a nonce; the network quotes one fee that fits the fee type
\* inflated and one that does not.
ConcRequests == { Request(Some(2), None) }
ConcEstimates == { 100, (U256Max \div 110) + 1 }

NextConc ==
    (\E c \in Calls : Step(c, ConcRequests, ConcEstimates)) \/ ChainAdvance

SpecConc == Init /\ [][NextConc]_vars

\* ------------------------------------------------------------- vocabulary
InAttempt == {"query", "estimate", "send", "confirm"}
Returned(c) == pc[c] = "returned"
Failed(o) == o.tag = "Err"
FailedAt(o, src) == o.tag = "Err" /\ o.e.src = src
InFlight(c) ==
    (issued[c]["query"] - returned[c]["query"])
    + (issued[c]["estimate"] - returned[c]["estimate"])
    + (issued[c]["send"] - returned[c]["send"])
    + (issued[c]["confirm"] - returned[c]["confirm"])
    + (issued[c]["sleep"] - returned[c]["sleep"])

\* ---------------------------------------------------------------- claims
\* C1: handle_transaction returns success only if some attempt of the call
\* had its send accepted and its wait for the confirmations completed.
C1_SuccessOnlyIfConfirmed ==
    \A c \in Calls :
        (Returned(c) /\ result[c] = Ok)
            => \E i \in 1..Len(outcomes[c]) : outcomes[c][i] = Ok

\* C2: a failure of the wait for the confirmations is never retried: the call
\* returns that error, and no send is issued once a send of the call was
\* accepted.
C2_ConfirmFailureNotRetried ==
    \A c \in Calls :
        /\ \A i \in 1..Len(outcomes[c]) :
              FailedAt(outcomes[c][i], "confirm")
                  => (Returned(c) /\ result[c] = outcomes[c][i])
        /\ pc[c] = "send" => issued[c]["confirm"] = 0

\* C3: when MAX_RETRIES attempts of a call have all failed, the call returns
\* the error of the last failed attempt.
C3_ExhaustedReturnsLastError ==
    \A c \in Calls :
        (/\ Returned(c)
         /\ Len(outcomes[c]) = MAX_RETRIES
         /\ \A i \in 1..MAX_RETRIES : Failed(outcomes[c][i]))
            => result[c] = outcomes[c][MAX_RETRIES]

\* C4: a call makes at most MAX_RETRIES attempts and at most MAX_RETRIES
\* sends; when every attempt ended in a send error that is not "already
\* known", the call has issued exactly MAX_RETRIES sends when it ends.
C4_RetryBound ==
    \A c \in Calls :
        /\ begun[c] <= MAX_RETRIES
        /\ issued[c]["send"] <= MAX_RETRIES
        /\ (/\ Returned(c)
            /\ \A i \in 1..Len(outcomes[c]) :
                  /\ FailedAt(outcomes[c][i], "send")
                  /\ ~IsAlreadyKnown(outcomes[c][i].e.text))
              => (begun[c] = MAX_RETRIES /\ issued[c]["send"] = MAX_RETRIES)

C4_Witness ==
    \E c \in Calls :
        /\ Returned(c)
        /\ Len(outcomes[c]) = MAX_RETRIES
        /\ \A i \in 1..Len(outcomes[c]) :
              /\ FailedAt(outcomes[c][i], "send")
              /\ ~IsAlreadyKnown(outcomes[c][i].e.text)
        /\ issued[c]["send"] = MAX_RETRIES

\* C5: an attempt with index a that queried the transaction count N sends a
\* request whose nonce is N + a - 2; after a first attempt that failed with
\* "already known", the second attempt sends nonce N - 1.
C5_CorrectedNonce ==
    \A c \in Calls :
        pc[c] \in {"send", "confirm"} =>
            /\ num_transactions[c] # None
                  => sent[c].nonce
                       = Some(num_transactions[c][1] + attempts[c] - 2)
            /\ (attempts[c] = 1 /\ Failed(outcomes[c][1])
                  /\ IsAlreadyKnown(outcomes[c][1].e.text))
                  => /\ num_transactions[c] # None
                     /\ sent[c].nonce = Some(num_transactions[c][1] - 1)

C5_Witness ==
    \E c \in Calls :
        /\ pc[c] = "send"
        /\ attempts[c] = 1
        /\ FailedAt(outcomes[c][1], "send")
        /\ IsAlreadyKnown(outcomes[c][1].e.text)
        /\ num_transactions[c] = Some(5)
        /\ sent[c].nonce = Some(4)

\* C6: when the estimate, the send and the wait of the first attempt all
\* succeed, the call returns success after one attempt: one estimate, one
\* send, no transaction-count query and no sleep.
C6_FirstAttemptSuccess ==
    \A c \in Calls :
        (Len(outcomes[c]) >= 1 /\ outcomes[c][1] = Ok) =>
            /\ Returned(c)
            /\ result[c] = Ok
            /\ begun[c] = 1
            /\ issued[c] = [query |-> 0, estimate |-> 1, send |-> 1,
                            confirm |-> 1, sleep |-> 0]
            /\ delays[c] = << >>

C6_Witness ==
    \E c \in Calls :
        /\ outcomes[c] = << Ok >>
        /\ Returned(c)
        /\ result[c] = Ok
        /\ issued[c]["send"] = 1

\* C7: the gas of the request given to send_transaction is
\* floor(estimate * 110 / 100) for every estimate of the fee type.
C7_FeeInflation ==
    \A c \in Calls :
        pc[c] \in {"send", "confirm"} =>
            sent[c].gas = Some((estimate_gas[c][1] * 110) \div 100)

\* C8: the sleep after the failure of the attempt with index k lasts
\* RETRY_DELAY * (k + 1), so the delays of one call are strictly increasing.
C8_Backoff ==
    \A c \in Calls :
        /\ \A i \in 1..Len(delays[c]) :
              /\ delays[c][i] = RETRY_DELAY * i
              /\ i > 1 => delays[c][i] > delays[c][i - 1]
        /\ pc[c] = "sleep" =>
              /\ Len(delays[c]) = attempts[c] + 1
              /\ delays[c][Len(delays[c])] = RETRY_DELAY * (attempts[c] + 1)

C8_Witness ==
    \E c \in Calls :
        /\ pc[c] = "sleep"
        /\ attempts[c] = 1
        /\ delays[c] = << RETRY_DELAY, 2 * RETRY_DELAY >>

\* C9: a call has at most one collaborator call in flight, and an attempt is
\* under way only when every earlier attempt has returned its outcome and
\* the sleep after each of them has finished.
C9_OneAttemptInFlight ==
    \A c \in Calls :
        /\ InFlight(c) <= 1
        /\ pc[c] \in InAttempt =>
              /\ Len(outcomes[c]) = begun[c] - 1
              /\ returned[c]["sleep"] = begun[c] - 1
              /\ issued[c]["sleep"] = begun[c] - 1

C9_Witness ==
    \E c \in Calls :
        /\ pc[c] = "send"
        /\ begun[c] = 2
        /\ Len(outcomes[c]) = 1
        /\ returned[c]["sleep"] = 1
        /\ InFlight(c) = 1

\* C10: the attempt counter and the nonce-correction flag of a call change
\* only in steps of that call, and nothing keeps two calls of one identity
\* apart: both can correct the nonce from the same transaction count and
\* have a send with the same nonce in flight.
C10_LocalRetryState ==
    [][\A c \in Calls :
          (attempts'[c] # attempts[c] \/ adjust_nonce'[c] # adjust_nonce[c])
              => pc'[c] # pc[c]]_vars

C10_Witness ==
    /\ \A c \in Calls :
          /\ pc[c] = "send"
          /\ adjust_nonce[c]
          /\ num_transactions[c] # None
    /\ num_transactions["A"] = num_transactions["B"]
    /\ sent["A"].nonce = sent["B"].nonce
    /\ sent["A"].nonce # None

\* --------------------------------------------------- vocabulary of events
\* Positions of the log of call c.
Positions(c) == 1..Len(events[c])
IsEvent(ev, att, k, what) == ev.att = att /\ ev.kind = k /\ ev.what = what
\* Some attempt before the one with index att failed in send_transaction
\* with an "already known" text.
EarlierSendAlreadyKnown(c, att) ==
    \E i \in 1..Len(outcomes[c]) :
        /\ i <= att
        /\ FailedAt(outcomes[c][i], "send")
        /\ IsAlreadyKnown(outcomes[c][i].e.text)
\* The attempt with index att issued the transaction-count query.
Queried(c, att) ==
    \E i \in Positions(c) : IsEvent(events[c][i], att, "query", "issue")

\* C11: an attempt queries the transaction count and overrides the nonce
\* exactly when an earlier attempt of the call failed at submission with
\* "already known"; the first attempt never does, the flag stays set, and an
\* attempt made with the flag unset sends the caller's nonce unchanged.
C11_QueryIffSendAlreadyKnown ==
    \A c \in Calls :
        /\ \A att \in 0..(begun[c] - 1) :
              Queried(c, att) <=> EarlierSendAlreadyKnown(c, att)
        /\ ~Queried(c, 0)
        /\ adjust_nonce[c] <=> EarlierSendAlreadyKnown(c, Len(outcomes[c]))
        /\ (pc[c] \in {"send", "confirm"} /\ ~adjust_nonce[c])
              => sent[c].nonce = request[c].nonce

\* C12: a sleep happens only when another attempt follows it: after the
\* failure of the last permitted attempt the call ends in failure without
\* sleeping, so a call sleeps fewer times than it makes attempts.
C12_SleepOnlyBeforeRetry ==
    \A c \in Calls :
        /\ pc[c] = "sleep" => attempts[c] + 1 < MAX_RETRIES
        /\ Returned(c) => issued[c]["sleep"] < begun[c]
        /\ (Len(outcomes[c]) = MAX_RETRIES
              /\ Failed(outcomes[c][MAX_RETRIES]))
              => (Returned(c) /\ result[c].tag = "Err")

\* C13: wherever a corrected nonce is computed, queried count + attempts is
\* at least 2, so the subtraction never underflows and no call panics.
C13_NoNonceUnderflow ==
    \A c \in Calls :
        /\ num_transactions[c] # None
              => num_transactions[c][1] + attempts[c] >= 2
        /\ pc[c] # "panicked"

\* C14: an attempt whose estimate_gas failed issues no send and no
\* confirmation wait; every send follows directly on a successful estimate
\* of its own attempt, whose value (inflated) is the gas of the request sent.
C14_EstimateFailureSendsNothing ==
    \A c \in Calls :
        /\ \A i \in Positions(c) :
              (events[c][i].kind = "estimate" /\ events[c][i].what = "err")
                  => \A j \in Positions(c) :
                        events[c][j].att = events[c][i].att
                            => events[c][j].kind \notin {"send", "confirm"}
        /\ \A j \in Positions(c) :
              (events[c][j].kind = "send" /\ events[c][j].what = "issue")
                  => /\ j > 1
                     /\ IsEvent(events[c][j - 1], events[c][j].att,
                                "estimate", "ok")
        /\ pc[c] = "send" =>
              /\ estimate_gas[c] # None
              /\ sent[c].gas = Some(IncreasedGas(estimate_gas[c][1]))

C14_Witness ==
    \E c \in Calls :
        /\ pc[c] = "send"
        /\ attempts[c] = 1
        /\ FailedAt(outcomes[c][1], "estimate")
        /\ issued[c]["send"] = 1
        /\ issued[c]["estimate"] = 2
        /\ estimate_gas[c] = Some(100)

\* C15: within an attempt the awaited calls come in the order transaction
\* count (only when correcting), estimate, send, confirmations: each is
\* issued directly after the success of the one before it in the same
\* attempt, and the request sent carries the nonce chosen for the attempt.
C15_OrderWithinAttempt ==
    \A c \in Calls :
        /\ \A j \in Positions(c) :
              LET ev == events[c][j]
                  FirstOfAttempt ==
                      \/ j = 1 /\ ev.att = 0
                      \/ j > 1 /\ IsEvent(events[c][j - 1], ev.att - 1,
                                          "sleep", "ok")
              IN ev.what = "issue" =>
                    /\ ev.kind = "query" => FirstOfAttempt
                    /\ ev.kind = "estimate" =>
                          IF Queried(c, ev.att)
                          THEN j > 1 /\ IsEvent(events[c][j - 1], ev.att,
                                                "query", "ok")
                          ELSE FirstOfAttempt
                    /\ ev.kind = "send" =>
                          j > 1 /\ IsEvent(events[c][j - 1], ev.att,
                                           "estimate", "ok")
                    /\ ev.kind = "confirm" =>
                          j > 1 /\ IsEvent(events[c][j - 1], ev.att,
                                           "send", "ok")
        /\ pc[c] \in {"send", "confirm"} =>
              sent[c].nonce = transaction[c].nonce

C15_Witness ==
    \E c \in Calls :
        /\ pc[c] = "confirm"
        /\ attempts[c] = 1
        /\ Queried(c, 1)
        /\ sent[c].nonce = transaction[c].nonce
        /\ sent[c].nonce # request[c].nonce
        /\ \E j \in Positions(c) : IsEvent(events[c][j], 1, "send", "ok")

\* C16: every attempt starts from the caller's request: the request the
\* loop keeps is never changed, the request estimated is that request with at
\* most the nonce replaced (only when correcting), and the request sent
\* differs from it only in that nonce and in the gas of the attempt's own
\* estimate.
C16_AttemptFrame ==
    \A c \in Calls :
        /\ pc[c] \in {"estimate", "send", "confirm"} =>
              /\ transaction[c].payload = request[c].payload
              /\ transaction[c].gas = request[c].gas
              /\ transaction[c].nonce =
                    IF Queried(c, attempts[c])
                    THEN Some(num_transactions[c][1] + attempts[c] - 2)
                    ELSE request[c].nonce
        /\ pc[c] \in {"send", "confirm"} =>
              sent[c] = [transaction[c] EXCEPT
                            !.gas = Some(IncreasedGas(estimate_gas[c][1]))]

C16_CallerRequestKept ==
    \A c \in Calls : pc[c] # "idle" => request'[c] = request[c]

C16_DerivedFromCallerRequest ==
    [] C16_AttemptFrame /\ [][C16_CallerRequestKept]_vars

C16_Witness ==
    \E c \in Calls :
        /\ pc[c] = "send"
        /\ attempts[c] = 1
        /\ FailedAt(outcomes[c][1], "confirm")
        /\ request[c] = Request(Some(2), None)
        /\ estimate_gas[c] = Some(7)
        /\ sent[c] = Request(Some(2), Some(7))

\* C17: every call that was made ends with a result: whenever it has not
\* returned it has a step to take (an awaited call to come back from), and it
\* makes at most MAX_RETRIES attempts and MAX_RETRIES sleeps.
C17_Terminates ==
    \A c \in Solo :
        /\ begun[c] <= MAX_RETRIES
        /\ issued[c]["sleep"] <= MAX_RETRIES
        /\ pc[c] # "idle" =>
              (Returned(c) \/ ENABLED Step(c, CallerRequests, Estimates))

\* C18: when the transaction-count query fails the call returns that error
\* at once: the attempt issues no estimate, send or sleep, the attempt
\* counter keeps its value and no further attempt is made.
C18_QueryFailureReturns ==
    \A c \in Calls :
        \A i \in Positions(c) :
            (events[c][i].kind = "query" /\ events[c][i].what = "err") =>
                /\ i = Len(events[c])
                /\ Returned(c)
                /\ result[c].tag = "Err"
                /\ result[c].e.src = "query"
                /\ attempts[c] = events[c][i].att
                /\ begun[c] = events[c][i].att + 1
                /\ Len(outcomes[c]) = events[c][i].att
                /\ \A j \in Positions(c) :
                      events[c][j].att = events[c][i].att
                          => events[c][j].kind = "query"

C18_Witness ==
    \E c \in Calls :
        /\ Returned(c)
        /\ result[c] = Err(Error("query", << "connection", "reset" >>))
        /\ attempts[c] = 1
        /\ begun[c] = 2
        /\ issued[c]["sleep"] = 1
        /\ issued[c]["estimate"] = 1

\* C19: whenever try_send_transaction has returned an error the attempt
\* counter is below MAX_RETRIES, so the error (of the estimate, the send or
\* the confirmations) takes the retry arm: a sleep follows it at once, the
\* counter is incremented after the sleep and never exceeds MAX_RETRIES, and
\* the give-up arm returns nothing.
C19_EveryErrorRetried ==
    \A c \in Calls :
        /\ attempts[c] >= 0
        /\ attempts[c] <= MAX_RETRIES
        /\ pc[c] \in InAttempt \cup {"sleep"} => attempts[c] < MAX_RETRIES
        /\ \A i \in Positions(c) :
              (events[c][i].what = "err" /\ events[c][i].kind # "query") =>
                  /\ events[c][i].att < MAX_RETRIES
                  /\ i < Len(events[c])
                  /\ IsEvent(events[c][i + 1], events[c][i].att,
                             "sleep", "issue")
        /\ \A i \in 1..(Len(events[c]) - 1) :
              (events[c][i].kind = "sleep" /\ events[c][i].what = "ok")
                  => events[c][i + 1].att = events[c][i].att + 1
        /\ attempts[c] = returned[c]["sleep"]
        /\ Len(delays[c]) = Cardinality({i \in 1..Len(outcomes[c]) :
                                            Failed(outcomes[c][i])})
        /\ (Returned(c) /\ result[c].tag = "Err") => result[c].e.src = "query"

C19_Witness ==
    \E c \in Calls :
        /\ pc[c] = "sleep"
        /\ attempts[c] = 1
        /\ FailedAt(outcomes[c][1], "estimate")
        /\ FailedAt(outcomes[c][2], "confirm")
        /\ Len(delays[c]) = 2

====
